---- MODULE Spec2Model ----
(***************************************************************************)
(* Fluxfit (src/Fluxfit.py): pairing of the logged measurement actions,    *)
(* assembly of the analyzer sample window of each interval, and the        *)
(* append-only flux result file.                                           *)
(*                                                                         *)
(* Texts are sequences of one-character strings.  Positions in a series    *)
(* are 1-based here and 0-based in the code: the code's loc k is the       *)
(* model's k + 1, and iloc[a:b] is SubSeq(s, a, b - 1) on model positions. *)
(***************************************************************************)
EXTENDS Integers, Sequences, FiniteSets, TLC

VARIABLES
    logFile,      \* content of the measurement log at log_path
    data_path,    \* Fluxfit.data_path: which analyzer data tree is read
    startOffset,  \* Fluxfit.startOffset
    endOffset,    \* Fluxfit.endOffset
    outFile,      \* lines of the file at output_path (meaningful when outExists)
    outExists,    \* os.path.isfile(output_path)
    pc,           \* position of pull_fluxes
    log,          \* pull_fluxes: log
    zipStEnd,     \* pull_fluxes: zipStEnd
    i,            \* pull_fluxes: 1-based position of the loop in zipStEnd
    datadf,       \* grab_data: index of datadf after dropna
    startIndex,   \* grab_data: startIndex (0 while unset)
    endIndex,     \* grab_data: endIndex (0 while unset)
    data,         \* pull_fluxes: index of data, the frame grab_data returned
    err,          \* the exception that ended the run, or NoError
    runBase,      \* number of lines of outFile when the current run began
    runs,         \* number of pull_fluxes runs begun
    probe,        \* an action text handed to the classifier
    verdict,      \* the classifier's answer for probe
    shardDir,     \* file_list: the .dat files under data_path
    span,         \* file_list: <<startTime, endTime>>
    targets,      \* file_list: targets, the paths returned
    rawFrame,     \* grab_data: datadf as pd.concat returned it
    cleanFrame,   \* grab_data: datadf as dropna returned it
    content,      \* file_timestamps: the bytes of the file at filepath
    pos,          \* file_timestamps: the position of f (f.tell())
    firstStamp,   \* file_timestamps: firstStamp (0 while unset)
    lastStamp,    \* file_timestamps: lastStamp (0 while unset)
    upc           \* position of the function that is run on its own

vars == <<logFile, data_path, startOffset, endOffset, outFile, outExists, pc,
          log, zipStEnd, i, datadf, startIndex, endIndex, data, err, runBase,
          runs, probe, verdict, shardDir, span, targets, rawFrame,
          cleanFrame, content, pos, firstStamp, lastStamp, upc>>

\* the configuration and the files pull_fluxes only reads
config == <<logFile, data_path, startOffset, endOffset>>
\* the locals of grab_data
grabVars == <<datadf, startIndex, endIndex>>
\* the variables of file_list, of dropna and of file_timestamps when each
\* is run on its own
listVars == <<shardDir, span, targets>>
frameVars == <<rawFrame, cleanFrame>>
stampVars == <<content, pos, firstStamp, lastStamp>>
unitVars == <<listVars, frameVars, stampVars, upc>>
\* the classifier's variables, and those of the other functions run alone
classVars == <<probe, verdict, unitVars>>

----------------------------------------------------------------------------
(* Bounds of the model *)

\* longest measurement log, in entries
MaxLog == 4
\* most data rows in the shard files one glob returns
MaxRows == 3
\* most pull_fluxes runs against one output file
MaxRuns == 2
\* longest action text enumerated for the classifier
MaxLen == 4
\* last calendar day, counted from the epoch, of the enumerated data trees
MaxDay == 1
\* most .dat files in an enumerated data tree
MaxFiles == 2
\* most lines in a file whose bytes are enumerated
MaxLines == 3

----------------------------------------------------------------------------
(* Program constants *)

\* Fluxfit.responseTime
responseTime == 8
\* the value re.IGNORECASE that zippedStartEnd passes to str.contains
IGNORECASE == 2
\* seconds in the calendar day of datetime.utcfromtimestamp
SecondsPerDay == 86400

----------------------------------------------------------------------------
(* Action texts and their classification *)

lid_on == <<"l", "i", "d", "_", "o", "n">>
Lid_On == <<"L", "i", "d", " ", "O", "n">>
ON == <<"O", "N">>
on == <<"o", "n">>
observation == <<"o", "b", "s", "e", "r", "v", "a", "t", "i", "o", "n">>
plus_on == <<"+", "o", "n">>
lid_off == <<"l", "i", "d", "_", "o", "f", "f">>
Lid_Off == <<"L", "i", "d", " ", "O", "f", "f">>
OFF == <<"O", "F", "F">>
off == <<"o", "f", "f">>

\* the texts the comments of beginRead name, and their "off" counterparts
NamedTexts == {lid_on, Lid_On, ON, on, observation, plus_on,
               lid_off, Lid_Off, OFF, off}

Alphabet == {"o", "n", "f", "O", "N", "F", "_", "-", " ", "+"}

Texts == UNION {[1..k -> Alphabet] : k \in 0..MaxLen} \cup NamedTexts

\* str.lower on one character
Lower(c) ==
    CASE c = "O" -> "o"
      [] c = "N" -> "n"
      [] c = "F" -> "f"
      [] c = "L" -> "l"
      [] OTHER -> c

\* The regular expressions beginRead and endRead have one shape,
\*   .*[-_ ]WORD$|^WORD$
\* and are kept as the separator class and the word.
beginRead == [seps |-> {"-", "_", " "}, word |-> <<"o", "n">>]
endRead == [seps |-> {"-", "_", " "}, word |-> <<"o", "f", "f">>]

\* one literal character of a pattern against one character of the text,
\* under the flags of the compiled pattern
CharMatch(c, lit, flags) ==
    IF flags = IGNORECASE THEN Lower(c) = Lower(lit) ELSE c = lit

\* the literal word at text positions p+1 .. p+Len(word), then $
WordAtEnd(s, p, word, flags) ==
    /\ p + Len(word) = Len(s)
    /\ \A k \in 1..Len(word) : CharMatch(s[p + k], word[k], flags)

\* re.search(pat, s, flags) for a text without line breaks: the search
\* succeeds when one of the two alternatives matches from the start of the
\* text (.* takes whatever precedes a later match of the first)
re_search(pat, s, flags) ==
    \/ \E q \in 0..(Len(s) - 1) :
          \* .* takes s[1..q]; the class takes s[q+1]; the word ends s
          /\ WordAtEnd(s, q + 1, pat.word, flags)
          /\ \E sep \in pat.seps : CharMatch(s[q + 1], sep, flags)
    \/ WordAtEnd(s, 0, pat.word, flags)      \* ^WORD$

\* pandas Series.str.contains(pat, case, flags) for one element: the
\* pattern is compiled with flags, plus IGNORECASE when case is false
str_contains(s, pat, case, flags) ==
    re_search(pat, s, IF case = 0 THEN IGNORECASE ELSE flags)

\* zippedStartEnd's two masks: re.IGNORECASE arrives in the parameter case
IsBegin(action) == str_contains(action, beginRead, IGNORECASE, 0)
IsEnd(action) == str_contains(action, endRead, IGNORECASE, 0)

----------------------------------------------------------------------------
(* Analyzer data: shard files and the frame grab_data builds from them *)

\* the EPOCH_TIME values the enumerated shard rows carry
SampleTimes == responseTime .. (responseTime + MaxLog)

\* Fluxfit.getLabels, the columns the fluxes are computed from
getLabels == {"CO2_dry", "CH4_dry", "N2O_dry", "NH3"}
\* the columns of a frame read from a .dat file, the index EPOCH_TIME set
\* aside: those of getLabels, and "other" for the columns pull_fluxes does
\* not read
Columns == getLabels \cup {"other"}

\* A shard file is a sequence of data rows; a row is its EPOCH_TIME and
\* the set of its columns that hold NaN.  The analyzer appends rows as
\* time passes, so the rows of one file ascend in EPOCH_TIME.  A glob
\* returns the files in path order; file names carry the time the file was
\* begun, so path order is time order, and the last row of one file and
\* the first row of the next may carry the same EPOCH_TIME.

\* the rows times[1..] with row n cut short, every column of it holding
\* NaN (n = 0: none), in one file
\* (cut = 0) or cut into two files after row cut
TreeOf(times, cut, n) ==
    LET rows == [j \in 1..Len(times) |-> [t |-> times[j], na |-> IF j = n THEN Columns ELSE {}]]
    IN  IF rows = <<>> THEN <<>>
        ELSE IF cut = 0 THEN <<rows>>
        ELSE <<SubSeq(rows, 1, cut), SubSeq(rows, cut + 1, Len(rows))>>

\* the file lists enumerated for the field data tree: up to MaxRows rows in
\* no, one or two files, each list written once as its rows' times (padded
\* to MaxRows), their number, the cut and the NaN row
TreeShapes ==
    {x \in [times : [1..MaxRows -> SampleTimes], len : 0..MaxRows,
            cut : 0..MaxRows, n : 0..MaxRows] :
        /\ x.cut < x.len \/ x.cut = 0
        /\ x.n <= x.len
        /\ \A j \in 1..MaxRows :
              /\ j < x.len =>
                    \/ x.times[j] < x.times[j + 1]
                    \/ j = x.cut /\ x.times[j] = x.times[j + 1]
              /\ j > x.len => x.times[j] = responseTime}
FieldTrees ==
    {TreeOf(SubSeq(x.times, 1, x.len), x.cut, x.n) : x \in TreeShapes}

\* file_timestamps: EPOCH_TIME of the first and of the last data row
file_timestamps(f) == <<f[1].t, f[Len(f)].t>>

\* file_within_interval: the file is kept when its span overlaps the range
file_within_interval(f, startTime, endTime) ==
    LET stamps == file_timestamps(f)
    IN  startTime <= stamps[2] /\ endTime >= stamps[1]

\* file_list: the globbed files, in path order, that overlap the range
file_list(files, startTime, endTime) ==
    SelectSeq(files, LAMBDA f : file_within_interval(f, startTime, endTime))

\* dt.datetime.utcfromtimestamp(t), as far as file_list reads it: the
\* calendar day (year, month, day) of t, here counted in days from the epoch
utcfromtimestamp(t) == t \div SecondsPerDay

\* A .dat file of a data tree: the day of the directory year/month/day it
\* lies in, its name (names are compared as numbers here, as texts in the
\* code) and its data rows.  Its path is <<day, name>>, and paths compare
\* as the texts data_path/year/month/day/name do: by day, then by name.
PathOf(f) == <<f.day, f.name>>
PathLess(a, b) == a[1] < b[1] \/ (a[1] = b[1] /\ a[2] < b[2])

\* the sequences that list every element of S once
Perms(S) ==
    {q \in [1..Cardinality(S) -> S] :
        \A a, b \in 1..Cardinality(S) : a # b => q[a] # q[b]}

\* glob.glob(data_path + "year/month/day/*.dat"): the paths of the files of
\* that day, in whatever order the directory yields them
glob(dir, day) == Perms({PathOf(f) : f \in {g \in dir : g.day = day}})

\* sorted(list(set(targets)))
unsorted_list(paths) == paths
sorted_set(paths) ==
    LET S == {paths[k] : k \in 1..Len(paths)}
    IN  CHOOSE q \in Perms(S) :
            \A k \in 1..(Len(q) - 1) : PathLess(q[k], q[k + 1])

\* open(filepath) and the rows read from it
RowsAt(dir, path) == (CHOOSE f \in dir : PathOf(f) = path).rows

\* file_list as a whole, on a data tree: the two day directories are
\* globbed (stGlob and endGlob are what the two globs return), the paths
\* are made unique and sorted, and those whose file overlaps the range are
\* returned
file_list_paths(dir, startTime, endTime, stGlob, endGlob) ==
    LET globbed == stGlob \o endGlob
    IN  SelectSeq(sorted_set(globbed),
                  LAMBDA path : file_within_interval(RowsAt(dir, path),
                                                     startTime, endTime))

\* the instants enumerated for file_list: the first and the last second of
\* each day
Instants ==
    {d * SecondsPerDay + o : d \in 0..MaxDay, o \in {0, SecondsPerDay - 1}}

\* the .dat files enumerated: the analyzer begins a file in the directory
\* of the day of its first row, and appends rows as time passes, into the
\* next day at most; a day directory holds up to two names
DatFile(first, last, name) ==
    [day |-> utcfromtimestamp(first), name |-> name,
     rows |-> IF first = last THEN <<[t |-> first, na |-> {}]>>
              ELSE <<[t |-> first, na |-> {}], [t |-> last, na |-> {}]>>]
DatFiles ==
    {DatFile(x.first, x.last, x.name) :
        x \in {y \in [first : Instants, last : Instants, name : 1..2] :
                  /\ y.first <= y.last
                  /\ utcfromtimestamp(y.last) <= utcfromtimestamp(y.first) + 1}}

\* the data trees enumerated: up to MaxFiles files, no two at one path
RECURSIVE SetsUpTo(_)
SetsUpTo(n) ==
    IF n = 0 THEN {{}}
    ELSE LET smaller == SetsUpTo(n - 1)
         IN  smaller \cup {d \cup {f} : d \in smaller, f \in DatFiles}
ShardDirs ==
    {d \in SetsUpTo(MaxFiles) :
        \A f, g \in d : PathOf(f) = PathOf(g) => f = g}

\* pd.concat(dataList): the frames one after the other, in list order
RECURSIVE concat(_)
concat(dataList) ==
    IF dataList = <<>> THEN <<>>
    ELSE Head(dataList) \o concat(Tail(dataList))

\* DataFrame.dropna(): rows holding a NaN in any column are removed, order
\* kept
dropna(frame) == SelectSeq(frame, LAMBDA r : r.na = {})

\* the frames enumerated for dropna: up to MaxRows rows one second apart,
\* each complete, or with NaN in one column, or with NaN in every column
NaNSets == {{}, Columns} \cup {{c} : c \in Columns}
RawFrames ==
    {[k \in 1..Len(nas) |-> [t |-> responseTime + k, na |-> nas[k]]] :
        nas \in UNION {[1..n -> NaNSets] : n \in 0..MaxRows}}

\* the index (EPOCH_TIME) of a frame
IndexOf(frame) == [k \in 1..Len(frame) |-> frame[k].t]

is_unique(index) ==
    \A a, b \in 1..Len(index) : a # b => index[a] # index[b]
is_monotonic_increasing(index) ==
    \A k \in 1..(Len(index) - 1) : index[k] <= index[k + 1]
is_monotonic_decreasing(index) ==
    \A k \in 1..(Len(index) - 1) : index[k] >= index[k + 1]

Abs(x) == IF x < 0 THEN -x ELSE x

\* get_indexer(key, 'pad') and (key, 'backfill') on a unique monotonic
\* index: the position next to key on either side, key's own position when
\* present, 0 for none (the code's -1)
PadLoc(index, key) ==
    LET S == IF is_monotonic_increasing(index)
             THEN {k \in 1..Len(index) : index[k] <= key}
             ELSE {k \in 1..Len(index) : index[k] >= key}
    IN  IF S = {} THEN 0 ELSE CHOOSE k \in S : \A m \in S : m <= k
BackfillLoc(index, key) ==
    LET S == IF is_monotonic_increasing(index)
             THEN {k \in 1..Len(index) : index[k] >= key}
             ELSE {k \in 1..Len(index) : index[k] <= key}
    IN  IF S = {} THEN 0 ELSE CHOOSE k \in S : \A m \in S : m >= k

\* values[loc] with the code's loc -1 reading the last element
ValueAt(index, loc) == IF loc = 0 THEN index[Len(index)] ELSE index[loc]

\* Index.get_loc(key, method='nearest'): [ok, loc] or [ok = FALSE, err]
NearestTieEarlier(index, key) ==
    IF ~is_unique(index) THEN [ok |-> FALSE, loc |-> 0, err |-> "InvalidIndexError"]
    ELSE IF index = <<>> THEN [ok |-> FALSE, loc |-> 0, err |-> "KeyError"]
    ELSE IF ~is_monotonic_increasing(index) THEN
        [ok |-> FALSE, loc |-> 0, err |-> "ValueError"]
    ELSE LET best == CHOOSE k \in 1..Len(index) :
                 \A m \in 1..Len(index) :
                     \/ Abs(index[k] - key) < Abs(index[m] - key)
                     \/ Abs(index[k] - key) = Abs(index[m] - key) /\ k <= m
         IN  [ok |-> TRUE, loc |-> best, err |-> "none"]
get_loc_nearest(index, key) ==
    IF ~is_unique(index) THEN [ok |-> FALSE, loc |-> 0, err |-> "InvalidIndexError"]
    ELSE IF index = <<>> THEN [ok |-> FALSE, loc |-> 0, err |-> "KeyError"]
    ELSE IF ~is_monotonic_increasing(index) /\ ~is_monotonic_decreasing(index)
    THEN [ok |-> FALSE, loc |-> 0, err |-> "ValueError"]
    ELSE LET left == PadLoc(index, key)
             right == BackfillLoc(index, key)
             left_distance == Abs(ValueAt(index, left) - key)
             right_distance == Abs(ValueAt(index, right) - key)
             takeLeft == \/ IF is_monotonic_increasing(index)
                            THEN left_distance < right_distance
                            ELSE left_distance <= right_distance
                         \/ right = 0
             loc == IF takeLeft THEN left ELSE right
         IN  IF loc = 0 THEN [ok |-> FALSE, loc |-> 0, err |-> "KeyError"]
             ELSE [ok |-> TRUE, loc |-> loc, err |-> "none"]

\* DataFrame.iloc[startIndex:endIndex] on model positions
iloc_inclusive(frame, first, last) == SubSeq(frame, first, last)
iloc_either_way(frame, first, last) ==
    IF first <= last THEN SubSeq(frame, first, last - 1)
    ELSE SubSeq(frame, last, first - 1)
iloc(frame, first, last) == SubSeq(frame, first, last - 1)

\* grab_data, lines 221-238: the shard files of the interval are listed,
\* read and concatenated, and rows holding NaN are dropped; pd.concat
\* raises ValueError when there is no file to read
read_shards(files, startTime, endTime) ==
    LET realStartdt == startTime + responseTime
        realEnddt == endTime + responseTime
        dataFileList == file_list(files, realStartdt, realEnddt)
    IN  IF dataFileList = <<>>
        THEN [ok |-> FALSE, err |-> "ValueError", datadf |-> <<>>]
        ELSE [ok |-> TRUE, err |-> "none",
              datadf |-> IndexOf(dropna(concat(dataFileList)))]

\* grab_data, lines 239-248: the two boundaries are resolved on the index
\* and the rows between them are returned
slice_window(index, startTime, endTime, sOff, eOff) ==
    LET startLoc == get_loc_nearest(index, startTime + responseTime + sOff)
        endLoc == get_loc_nearest(index, endTime + responseTime - eOff)
    IN  IF ~startLoc.ok
        THEN [ok |-> FALSE, err |-> startLoc.err, startIndex |-> 0,
              endIndex |-> 0, subset |-> <<>>]
        ELSE IF ~endLoc.ok
        THEN [ok |-> FALSE, err |-> endLoc.err, startIndex |-> startLoc.loc,
              endIndex |-> 0, subset |-> <<>>]
        ELSE [ok |-> TRUE, err |-> "none", startIndex |-> startLoc.loc,
              endIndex |-> endLoc.loc,
              subset |-> iloc(index, startLoc.loc, endLoc.loc)]

----------------------------------------------------------------------------
(* The bytes of a .dat file, as file_timestamps reads them.  A file        *)
(* position p is the number of bytes before it: the byte read at p is      *)
(* bytes[p + 1].                                                           *)

\* the characters str.split() takes for white space
Whitespace == {" ", "\n", "\t", "\r"}

\* f.readline() at position p: the bytes up to and including the next line
\* feed, or up to the end of the file, and the position afterwards
readline(bytes, p) ==
    LET feeds == {k \in (p + 1)..Len(bytes) : bytes[k] = "\n"}
        stop == IF feeds = {} THEN Len(bytes)
                ELSE CHOOSE k \in feeds : \A m \in feeds : k <= m
    IN  [line |-> SubSeq(bytes, p + 1, stop),
         pos |-> IF stop < p THEN p ELSE stop]

\* f.read(1) at position p: one byte, or none at the end of the file
read1(bytes, p) ==
    IF p < Len(bytes) THEN [bytes |-> <<bytes[p + 1]>>, pos |-> p + 1]
    ELSE [bytes |-> <<>>, pos |-> p]

\* f.seek(offset, whence), whence giving the position base: a position
\* before the start of the file is refused with OSError
seek_short(base, offset) ==
    IF base + offset + 1 < 0 THEN [ok |-> FALSE, pos |-> base]
    ELSE [ok |-> TRUE, pos |-> base + offset + 1]
seek(base, offset) ==
    IF base + offset < 0 THEN [ok |-> FALSE, pos |-> base]
    ELSE [ok |-> TRUE, pos |-> base + offset]

\* line.decode().split(): the runs of characters other than white space,
\* each from its first character to its last
split(line) ==
    LET starts == {k \in 1..Len(line) :
                      /\ line[k] \notin Whitespace
                      /\ k = 1 \/ line[k - 1] \in Whitespace}
        StartOf(n) == CHOOSE k \in starts :
                          Cardinality({m \in starts : m <= k}) = n
        EndOf(k) == CHOOSE e \in k..Len(line) :
                        /\ \A m \in k..e : line[m] \notin Whitespace
                        /\ e = Len(line) \/ line[e + 1] \in Whitespace
    IN  [n \in 1..Cardinality(starts) |->
            SubSeq(line, StartOf(n), EndOf(StartOf(n)))]

\* float(text) for a text of decimal digits; any other text enumerated
\* here is refused with ValueError
Digits == {"0", "1", "2", "3", "4", "5", "6", "7", "8", "9"}
DigitOf(c) ==
    CASE c = "0" -> 0 [] c = "1" -> 1 [] c = "2" -> 2 [] c = "3" -> 3
      [] c = "4" -> 4 [] c = "5" -> 5 [] c = "6" -> 6 [] c = "7" -> 7
      [] c = "8" -> 8 [] c = "9" -> 9
RECURSIVE DigitsValue(_)
DigitsValue(text) ==
    IF text = <<>> THEN 0
    ELSE 10 * DigitsValue(SubSeq(text, 1, Len(text) - 1))
             + DigitOf(text[Len(text)])
float(text) ==
    IF text # <<>> /\ \A k \in 1..Len(text) : text[k] \in Digits
    THEN [ok |-> TRUE, value |-> DigitsValue(text), err |-> "none"]
    ELSE [ok |-> FALSE, value |-> 0, err |-> "ValueError"]

\* float(line.decode().split()[5]): the EPOCH_TIME of a line, its 6th item
stamp_of(line) ==
    LET items == split(line)
    IN  IF Len(items) < 6
        THEN [ok |-> FALSE, value |-> 0, err |-> "IndexError"]
        ELSE float(items[6])

\* the lines enumerated: a header of six names, a data row stamped 1 or 2,
\* a row whose 6th item is no number, a row cut short, a blank line
HeaderLine == <<"D", " ", "T", " ", "F", " ", "H", " ", "J", " ", "E">>
DataLine(stamp) == <<"x", " ", "x", " ", "x", " ", "x", " ", "x", " ", stamp>>
ShortLine == <<"x", " ", "x">>
BlankLine == <<>>
LineKinds ==
    {HeaderLine, DataLine("1"), DataLine("2"), DataLine("x"), ShortLine,
     BlankLine}

\* the lines one after the other, a line feed after each but the last,
\* and after the last too when final
RECURSIVE Joined(_, _)
Joined(lines, final) ==
    IF lines = <<>> THEN <<>>
    ELSE IF Len(lines) = 1
    THEN Head(lines) \o (IF final THEN <<"\n">> ELSE <<>>)
    ELSE Head(lines) \o <<"\n">> \o Joined(Tail(lines), final)

\* the file contents enumerated: up to MaxLines lines of any kind, the
\* first being whatever readline skips as the header, with or without a
\* line feed at the end of the file
FileContents ==
    {Joined(x[1], x[2]) :
        x \in (UNION {[1..n -> LineKinds] : n \in 0..MaxLines}) \X BOOLEAN}

----------------------------------------------------------------------------
(* The measurement log *)

\* the Action column of the enumerated logs holds the name of a text, and
\* Chars spells it out
LogTexts == {"lid_on", "lid_off", "Lid On"}
Chars(name) ==
    CASE name = "lid_on" -> lid_on
      [] name = "lid_off" -> lid_off
      [] name = "Lid On" -> Lid_On

\* Picolog.log appends one entry per call, stamped with the clock: the
\* entries of a log ascend in "Unix stamp".  Entry k of an enumerated log
\* is stamped k.
FieldLogs ==
    {[k \in 1..Len(texts) |-> [stamp |-> k, action |-> texts[k]]] :
        texts \in UNION {[1..k -> LogTexts] : k \in 0..MaxLog}}

\* the log and the shard of the end-to-end scenario: one BEGIN, one END,
\* one sample per second
ScenarioLog == <<[stamp |-> 1000, action |-> "lid_on"],
                 [stamp |-> 1100, action |-> "lid_off"]>>
ScenarioShard == [k \in 1..131 |-> [t |-> 989 + k, na |-> {}]]

\* a log with three BEGIN markers and two END markers
UnevenLog == [k \in 1..5 |->
                [stamp |-> k,
                 action |-> IF k \in {2, 4} THEN "lid_off" ELSE "lid_on"]]

\* what is found at log_path: no file, a file that does not parse, a log
LogFiles ==
    {[kind |-> "missing", entries |-> <<>>],
     [kind |-> "garbled", entries |-> <<>>]}
    \cup {[kind |-> "log", entries |-> l] :
             l \in FieldLogs \cup {ScenarioLog, UnevenLog}}

\* the file lists a glob under data_path can return
DataRoots == {"field", "scenario"}
Tree(root) == IF root = "scenario" THEN {<<ScenarioShard>>} ELSE FieldTrees

\* list(frame.index): the "Unix stamp" of the rows of a log, in order
StampsOf(frame) == [k \in 1..Len(frame) |-> frame[k].stamp]

\* startList and endList: the stamps of the log rows each mask selects
startList(entries) ==
    StampsOf(SelectSeq(entries, LAMBDA e : IsBegin(Chars(e.action))))
endList(entries) ==
    StampsOf(SelectSeq(entries, LAMBDA e : IsEnd(Chars(e.action))))

\* zip(startList, endList)
zipReversed(xs, ys) ==
    [k \in 1..Len(xs) |-> <<xs[k], ys[Len(ys) + 1 - k]>>]
zip(xs, ys) == [k \in 1..Len(xs) |-> <<xs[k], ys[k]>>]

\* zippedStartEnd(log): the pairs, or the RuntimeError with both counts
zippedStartEnd_unchecked(entries) ==
    LET starts == startList(entries)
        ends == endList(entries)
        n == IF Len(starts) < Len(ends) THEN Len(starts) ELSE Len(ends)
    IN  [ok |-> TRUE,
         pairs |-> zip(SubSeq(starts, 1, n), SubSeq(ends, 1, n)),
         err |-> [type |-> "none", where |-> "none", starts |-> 0, ends |-> 0]]
zippedStartEnd(entries) ==
    LET starts == startList(entries)
        ends == endList(entries)
    IN  IF Len(starts) # Len(ends)
        THEN [ok |-> FALSE, pairs |-> <<>>,
              err |-> [type |-> "RuntimeError", where |-> "zippedStartEnd",
                       starts |-> Len(starts), ends |-> Len(ends)]]
        ELSE [ok |-> TRUE, pairs |-> zip(starts, ends),
              err |-> [type |-> "none", where |-> "none",
                       starts |-> 0, ends |-> 0]]

----------------------------------------------------------------------------
(* The result file *)

\* the header row write_flux builds from getLabels
Header == [kind |-> "header", epoch |-> 0, fit |-> "labels"]

\* slope_int_Rval over a window: linregress raises for no window shape
\* that reaches it, and yields NaN for a single sample
slope_int_Rval(df) == IF Len(df) < 2 THEN "nan" ELSE "fit"

\* the line pull_fluxes builds for an interval
Line(stTime, df) ==
    [kind |-> "row", epoch |-> stTime + responseTime, fit |-> slope_int_Rval(df)]

\* write_flux(line): [exists, lines] of the file afterwards
write_flux_rewrite(exists, lines, line) ==
    [exists |-> TRUE, lines |-> <<Header, line>>]
write_flux_twice(exists, lines, line) ==
    [exists |-> TRUE,
     lines |-> (IF exists THEN lines ELSE <<Header>>) \o <<line, line>>]
write_flux(exists, lines, line) ==
    [exists |-> TRUE,
     lines |-> Append(IF exists THEN lines ELSE <<Header>>, line)]

----------------------------------------------------------------------------
(* pull_fluxes *)

NoError == [type |-> "none", where |-> "none", starts |-> 0, ends |-> 0]
Error(type, where) == [type |-> type, where |-> where, starts |-> 0, ends |-> 0]

\* none of the functions run on their own has been given anything
UnitsIdle ==
    /\ shardDir = {}
    /\ span = <<0, 0>>
    /\ targets = <<>>
    /\ rawFrame = <<>>
    /\ cleanFrame = <<>>
    /\ content = <<>>
    /\ pos = 0
    /\ firstStamp = 0
    /\ lastStamp = 0
    /\ upc = "idle"

Init ==
    /\ logFile \in LogFiles
    /\ data_path \in DataRoots
    /\ startOffset \in {0, 1}
    /\ endOffset \in {0, 1}
    /\ outFile = <<>>
    /\ outExists = FALSE
    /\ pc = "idle"
    /\ log = <<>>
    /\ zipStEnd = <<>>
    /\ i = 0
    /\ datadf = <<>>
    /\ startIndex = 0
    /\ endIndex = 0
    /\ data = <<>>
    /\ err = NoError
    /\ runBase = 0
    /\ runs = 0
    /\ probe = <<>>
    /\ verdict = "none"
    /\ UnitsIdle

Resting == pc \in {"idle", "done", "aborted"}

Abort(e) ==
    /\ pc' = "aborted"
    /\ err' = e

\* pull_fluxes is entered and load_log returns the log
LoadLog ==
    /\ Resting
    /\ runs < MaxRuns
    /\ logFile.kind = "log"
    /\ runs' = runs + 1
    /\ runBase' = Len(outFile)
    /\ log' = logFile.entries
    /\ pc' = "loaded"
    /\ err' = NoError
    /\ zipStEnd' = <<>>
    /\ i' = 0
    /\ datadf' = <<>>
    /\ startIndex' = 0
    /\ endIndex' = 0
    /\ data' = <<>>
    /\ UNCHANGED <<config, outFile, outExists, classVars>>

\* pull_fluxes is entered and load_log raises
LoadLogFails ==
    /\ Resting
    /\ runs < MaxRuns
    /\ logFile.kind # "log"
    /\ runs' = runs + 1
    /\ runBase' = Len(outFile)
    /\ log' = <<>>
    /\ zipStEnd' = <<>>
    /\ i' = 0
    /\ datadf' = <<>>
    /\ startIndex' = 0
    /\ endIndex' = 0
    /\ data' = <<>>
    /\ Abort(Error(IF logFile.kind = "missing" THEN "FileNotFoundError"
                   ELSE "RuntimeError", "load_log"))
    /\ UNCHANGED <<config, outFile, outExists, classVars>>

\* zipStEnd = self.zippedStartEnd(log)
Pair ==
    /\ pc = "loaded"
    /\ LET z == zippedStartEnd(log)
       IN  IF z.ok
           THEN /\ zipStEnd' = z.pairs
                /\ i' = 1
                /\ pc' = "loop"
                /\ err' = err
           ELSE /\ Abort(z.err)
                /\ UNCHANGED <<zipStEnd, i>>
    /\ UNCHANGED <<config, outFile, outExists, log, grabVars, data, runBase,
                   runs, classVars>>

\* grab_data(stTime, endTime) for the interval at i, up to dropna
GrabRead ==
    /\ pc = "loop"
    /\ i <= Len(zipStEnd)
    /\ \E files \in Tree(data_path) :
         LET r == read_shards(files, zipStEnd[i][1], zipStEnd[i][2])
         IN  IF r.ok
             THEN /\ datadf' = r.datadf
                  /\ pc' = "merged"
                  /\ err' = err
             ELSE /\ Abort(Error(r.err, "grab_data"))
                  /\ datadf' = <<>>
    /\ startIndex' = 0
    /\ endIndex' = 0
    /\ data' = <<>>
    /\ UNCHANGED <<config, outFile, outExists, log, zipStEnd, i, runBase,
                   runs, classVars>>

\* grab_data from the first get_loc to its return; an exception leaves
\* none of its locals behind
GrabSlice ==
    /\ pc = "merged"
    /\ LET r == slice_window(datadf, zipStEnd[i][1], zipStEnd[i][2],
                             startOffset, endOffset)
       IN  IF r.ok
           THEN /\ startIndex' = r.startIndex
                /\ endIndex' = r.endIndex
                /\ data' = r.subset
                /\ datadf' = datadf
                /\ pc' = "grabbed"
                /\ err' = err
           ELSE /\ Abort(Error(r.err, "grab_data"))
                /\ datadf' = <<>>
                /\ startIndex' = 0
                /\ endIndex' = 0
                /\ data' = <<>>
    /\ UNCHANGED <<config, outFile, outExists, log, zipStEnd, i, runBase,
                   runs, classVars>>

\* data.index[-1] on a frame without rows
ReportFails ==
    /\ pc = "grabbed"
    /\ data = <<>>
    /\ Abort(Error("IndexError", "pull_fluxes"))
    /\ datadf' = <<>>
    /\ startIndex' = 0
    /\ endIndex' = 0
    /\ UNCHANGED <<config, outFile, outExists, log, zipStEnd, i, data,
                   runBase, runs, classVars>>

\* the rest of the loop body: the line is built and written, and the loop
\* moves to the next interval
EmitRecord ==
    /\ pc = "grabbed"
    /\ data # <<>>
    /\ LET f == write_flux(outExists, outFile, Line(zipStEnd[i][1], data))
       IN  /\ outExists' = f.exists
           /\ outFile' = f.lines
    /\ i' = i + 1
    /\ pc' = "loop"
    /\ datadf' = <<>>
    /\ startIndex' = 0
    /\ endIndex' = 0
    /\ data' = <<>>
    /\ UNCHANGED <<config, log, zipStEnd, err, runBase, runs, classVars>>

\* the loop is exhausted and pull_fluxes returns
Finish ==
    /\ pc = "loop"
    /\ i > Len(zipStEnd)
    /\ pc' = "done"
    /\ UNCHANGED <<config, outFile, outExists, log, zipStEnd, i, grabVars,
                   data, err, runBase, runs, classVars>>

Next ==
    \/ LoadLog
    \/ LoadLogFails
    \/ Pair
    \/ GrabRead
    \/ GrabSlice
    \/ ReportFails
    \/ EmitRecord
    \/ Finish

Spec == Init /\ [][Next]_vars

----------------------------------------------------------------------------
(* The classifier alone: one action text, classified as zippedStartEnd's   *)
(* masks classify it                                                       *)

InitClassify ==
    /\ logFile = [kind |-> "missing", entries |-> <<>>]
    /\ data_path = "field"
    /\ startOffset = 0
    /\ endOffset = 0
    /\ outFile = <<>>
    /\ outExists = FALSE
    /\ pc = "idle"
    /\ log = <<>>
    /\ zipStEnd = <<>>
    /\ i = 0
    /\ datadf = <<>>
    /\ startIndex = 0
    /\ endIndex = 0
    /\ data = <<>>
    /\ err = NoError
    /\ runBase = 0
    /\ runs = 0
    /\ probe \in Texts
    /\ verdict = "none"
    /\ UnitsIdle

Classify ==
    /\ verdict = "none"
    /\ verdict' = IF IsBegin(probe) THEN "BEGIN"
                  ELSE IF IsEnd(probe) THEN "END"
                  ELSE "other"
    /\ UNCHANGED <<config, outFile, outExists, pc, log, zipStEnd, i, grabVars,
                   data, err, runBase, runs, probe, unitVars>>

NextClassify == Classify

SpecClassify == InitClassify /\ [][NextClassify]_vars

----------------------------------------------------------------------------
(* file_list alone: one data tree, one range                               *)

\* pull_fluxes has not been entered
PipelineIdle ==
    /\ logFile = [kind |-> "missing", entries |-> <<>>]
    /\ data_path = "field"
    /\ startOffset = 0
    /\ endOffset = 0
    /\ outFile = <<>>
    /\ outExists = FALSE
    /\ pc = "idle"
    /\ log = <<>>
    /\ zipStEnd = <<>>
    /\ i = 0
    /\ datadf = <<>>
    /\ startIndex = 0
    /\ endIndex = 0
    /\ data = <<>>
    /\ err = NoError
    /\ runBase = 0
    /\ runs = 0
    /\ probe = <<>>
    /\ verdict = "none"

pipeVars == <<config, outFile, outExists, pc, log, zipStEnd, i, grabVars,
              data, err, runBase, runs, probe, verdict>>

InitList ==
    /\ PipelineIdle
    /\ shardDir \in ShardDirs
    /\ span \in Instants \X Instants
    /\ targets = <<>>
    /\ rawFrame = <<>>
    /\ cleanFrame = <<>>
    /\ content = <<>>
    /\ pos = 0
    /\ firstStamp = 0
    /\ lastStamp = 0
    /\ upc = "file_list"

\* targets = self.file_list(startTime, endTime)
ListFiles ==
    /\ upc = "file_list"
    /\ \E stGlob \in glob(shardDir, utcfromtimestamp(span[1])),
          endGlob \in glob(shardDir, utcfromtimestamp(span[2])) :
         targets' = file_list_paths(shardDir, span[1], span[2],
                                    stGlob, endGlob)
    /\ upc' = "listed"
    /\ UNCHANGED <<pipeVars, shardDir, span, frameVars, stampVars>>

NextList == ListFiles

SpecList == InitList /\ [][NextList]_vars

----------------------------------------------------------------------------
(* dropna alone: one frame as pd.concat returned it                        *)

InitFrame ==
    /\ PipelineIdle
    /\ shardDir = {}
    /\ span = <<0, 0>>
    /\ targets = <<>>
    /\ rawFrame \in RawFrames
    /\ cleanFrame = <<>>
    /\ content = <<>>
    /\ pos = 0
    /\ firstStamp = 0
    /\ lastStamp = 0
    /\ upc = "dropna"

\* datadf = datadf.dropna()
DropNa ==
    /\ upc = "dropna"
    /\ cleanFrame' = dropna(rawFrame)
    /\ upc' = "dropped"
    /\ UNCHANGED <<pipeVars, listVars, rawFrame, stampVars>>

NextFrame == DropNa

SpecFrame == InitFrame /\ [][NextFrame]_vars

----------------------------------------------------------------------------
(* file_timestamps alone, on the bytes of one file                         *)

InitStamps ==
    /\ PipelineIdle
    /\ shardDir = {}
    /\ span = <<0, 0>>
    /\ targets = <<>>
    /\ rawFrame = <<>>
    /\ cleanFrame = <<>>
    /\ content \in FileContents
    /\ pos = 0
    /\ firstStamp = 0
    /\ lastStamp = 0
    /\ upc = "open"

\* the exception file_timestamps has raised is kept as its position
Raised == upc \in {"IndexError", "ValueError", "OSError"}

\* f.readline(), the header
SkipHeader ==
    /\ upc = "open"
    /\ pos' = readline(content, pos).pos
    /\ upc' = "header"
    /\ UNCHANGED <<pipeVars, listVars, frameVars, content, firstStamp,
                   lastStamp>>

\* firstLine = f.readline(); firstStamp = float(firstLine...split()[5])
ReadFirst ==
    /\ upc = "header"
    /\ \E firstLine \in {readline(content, pos)} :
       \E stamp \in {stamp_of(firstLine.line)} :
           /\ pos' = firstLine.pos
           /\ IF stamp.ok
              THEN /\ firstStamp' = stamp.value
                   /\ upc' = "first"
              ELSE /\ firstStamp' = firstStamp
                   /\ upc' = stamp.err
    /\ UNCHANGED <<pipeVars, listVars, frameVars, content, lastStamp>>

\* f.seek(-2, os.SEEK_END)
SeekEnd ==
    /\ upc = "first"
    /\ LET to == seek(Len(content), -2)
       IN  /\ pos' = to.pos
           /\ upc' = IF to.ok THEN "scan" ELSE "OSError"
    /\ UNCHANGED <<pipeVars, listVars, frameVars, content, firstStamp,
                   lastStamp>>

\* one test of  while f.read(1) != b'\n'  and, when it holds, the body
\* f.seek(-2, os.SEEK_CUR)
ScanBack ==
    /\ upc = "scan"
    /\ LET byte == read1(content, pos)
           to == seek(byte.pos, -2)
       IN  IF byte.bytes = <<"\n">>
           THEN /\ pos' = byte.pos
                /\ upc' = "found"
           ELSE /\ pos' = to.pos
                /\ upc' = IF to.ok THEN "scan" ELSE "OSError"
    /\ UNCHANGED <<pipeVars, listVars, frameVars, content, firstStamp,
                   lastStamp>>

\* lastLine = f.readline(); lastStamp = float(lastLine...split()[5]);
\* return firstStamp, lastStamp
ReadLast ==
    /\ upc = "found"
    /\ \E lastLine \in {readline(content, pos)} :
       \E stamp \in {stamp_of(lastLine.line)} :
           /\ pos' = lastLine.pos
           /\ IF stamp.ok
              THEN /\ lastStamp' = stamp.value
                   /\ upc' = "returned"
              ELSE /\ lastStamp' = lastStamp
                   /\ upc' = stamp.err
    /\ UNCHANGED <<pipeVars, listVars, frameVars, content, firstStamp>>

NextStamps ==
    \/ SkipHeader
    \/ ReadFirst
    \/ SeekEnd
    \/ ScanBack
    \/ ReadLast

SpecStamps == InitStamps /\ [][NextStamps]_vars

\* file_timestamps runs in one thread with nothing to wait for: a step it
\* can take is taken
SpecStampsFair == SpecStamps /\ WF_vars(NextStamps)

----------------------------------------------------------------------------
(* Properties *)

\* the log texts classified BEGIN, and those classified END
BeginTexts == {name \in LogTexts : IsBegin(Chars(name))}
EndTexts == {name \in LogTexts : IsEnd(Chars(name))}

\* positions of the log entries classified BEGIN, and of those classified END
BeginMarks(entries) ==
    {k \in 1..Len(entries) : entries[k].action \in BeginTexts}
EndMarks(entries) ==
    {k \in 1..Len(entries) : entries[k].action \in EndTexts}

\* the stamp of the n-th entry, in log order, among the positions marks
NthStamp(entries, marks, n) ==
    LET p == CHOOSE k \in marks : Cardinality({q \in marks : q <= k}) = n
    IN  entries[p].stamp

\* the run has passed zippedStartEnd, which returned the pairs
Paired == pc \in {"loop", "merged", "grabbed", "done"}
          \/ (pc = "aborted" /\ err.where \in {"grab_data", "pull_fluxes"})

\* the run has passed load_log, which returned the log
Loaded == pc \notin {"idle"} /\ err.where # "load_log"

\* the lines the current run has added to the output file, header excluded
RunRows ==
    SelectSeq(SubSeq(outFile, runBase + 1, Len(outFile)),
              LAMBDA l : l.kind = "row")

\* C1: a failure while assembling or regressing interval i does not end the
\* run: only load_log and zippedStartEnd failures abort pull_fluxes, and a
\* run that has its pairs ends having visited every one of them.
C1_IntervalFailureNotFatal ==
    /\ pc = "aborted" => err.where \in {"load_log", "zippedStartEnd"}
    /\ (Paired /\ pc \in {"done", "aborted"}) => i = Len(zipStEnd) + 1

\* C2: when the counts of BEGIN and END entries differ, zippedStartEnd
\* raises an error carrying both counts and the run ends before any
\* interval is processed and with the output file as it found it.
C2_CountMismatchAborts ==
    LET starts == Cardinality(BeginMarks(log))
        ends == Cardinality(EndMarks(log))
    IN  (Loaded /\ pc # "loaded" /\ starts # ends) =>
            /\ pc = "aborted"
            /\ err = [type |-> "RuntimeError", where |-> "zippedStartEnd",
                      starts |-> starts, ends |-> ends]
            /\ i = 0
            /\ Len(outFile) = runBase
            /\ outExists <=> runBase > 0

\* C2 witness: a run over the log with 3 BEGIN and 2 END markers has ended
\* in zippedStartEnd's error
C2_Witness ==
    /\ pc = "aborted"
    /\ err.where = "zippedStartEnd"
    /\ err.starts = 3
    /\ err.ends = 2

\* C3: with n BEGIN and n END entries, zippedStartEnd yields n intervals,
\* the k-th being (stamp of the k-th BEGIN entry, stamp of the k-th END
\* entry), whatever the order of the two stamps.
C3_PositionalPairing ==
    LET starts == Cardinality(BeginMarks(log))
        ends == Cardinality(EndMarks(log))
    IN  (Loaded /\ pc # "loaded" /\ starts = ends) =>
            /\ Paired
            /\ Len(zipStEnd) = starts
            /\ \A k \in 1..starts :
                  zipStEnd[k] = <<NthStamp(log, BeginMarks(log), k),
                                  NthStamp(log, EndMarks(log), k)>>

\* C3 witness: two intervals are paired, the first with its BEGIN after its
\* END and the second END nearer in time to the first BEGIN
C3_Witness ==
    /\ Paired
    /\ Len(zipStEnd) = 2
    /\ zipStEnd[1][1] > zipStEnd[1][2]
    /\ zipStEnd[2][1] < zipStEnd[2][2]

\* the text with every letter lowered
LowerText(s) == [k \in 1..Len(s) |-> Lower(s[k])]
\* s ends in the text suffix
EndsIn(s, suffix) ==
    /\ Len(s) >= Len(suffix)
    /\ SubSeq(s, Len(s) - Len(suffix) + 1, Len(s)) = suffix
\* the rule of the default patterns on a lowered text
RuleOf(s, word) ==
    \/ s = word
    \/ \E sep \in {"-", "_", " "} : EndsIn(s, <<sep>> \o word)

\* C4: classification ignores letter case: a text is BEGIN exactly when,
\* lowered, it ends in "-on", "_on" or " on" or is "on", and END under the
\* same rule with "off".
C4_CaseInsensitive ==
    verdict # "none" =>
        /\ verdict = "BEGIN" <=> RuleOf(LowerText(probe), on)
        /\ verdict = "END" <=> RuleOf(LowerText(probe), off)

HeaderOnce(lines) ==
    lines # <<>> =>
        /\ lines[1] = Header
        /\ \A k \in 2..Len(lines) : lines[k] # Header

\* C6: every step that changes the output file writes the header if and
\* only if the file did not exist, keeps the previous lines as a prefix and
\* adds one row at the end; the header is the first line and appears once.
C6_AppendOnly ==
    [][(outFile' # outFile \/ outExists' # outExists) =>
          /\ outExists'
          /\ IF outExists
             THEN /\ Len(outFile') = Len(outFile) + 1
                  /\ SubSeq(outFile', 1, Len(outFile)) = outFile
             ELSE /\ Len(outFile') = 2
                  /\ outFile'[1] = Header
          /\ outFile'[Len(outFile')].kind = "row"
          /\ HeaderOnce(outFile')]_vars

\* C6 witness: a second run has added a row to the file a first run left
C6_Witness ==
    /\ runs = 2
    /\ runBase >= 2
    /\ Len(outFile) > runBase

\* the end-to-end scenario: the scenario's log and shard, both offsets 0
InScenario ==
    /\ logFile = [kind |-> "log", entries |-> ScenarioLog]
    /\ data_path = "scenario"
    /\ startOffset = 0
    /\ endOffset = 0

\* C7 as claimed: in the scenario the window handed to the regression spans
\* t=1008..1108, its last sample being the one nearest the adjusted end.
C7_WindowEndsAtAdjustedEnd ==
    (InScenario /\ pc = "grabbed") =>
        /\ data[1] = 1008
        /\ data[Len(data)] = 1108

\* C7 as amended: in the scenario the run ends having added exactly one
\* row, and the window spans t=1008..1107: its first sample is the one
\* nearest the adjusted start and its last sample is the one just before
\* the sample nearest the adjusted end.
C7_WindowStopsBeforeAdjustedEnd ==
    InScenario =>
        /\ pc # "aborted"
        /\ pc = "grabbed" =>
              /\ datadf[startIndex] = 1008
              /\ datadf[endIndex] = 1108
              /\ data = [k \in 1..100 |-> 1007 + k]
        /\ pc = "done" =>
              /\ Len(RunRows) = 1
              /\ RunRows[1].epoch = 1008

\* C7 witness: the scenario's run has ended with its one row
C7_Witness ==
    /\ InScenario
    /\ pc = "done"
    /\ Len(RunRows) = 1
    /\ RunRows[1].fit = "fit"

\* C8: the series grab_data assembles ascends in timestamp and holds no
\* timestamp twice.
C8_MergedSortedUnique ==
    pc \in {"merged", "grabbed"} =>
        \A k \in 1..(Len(datadf) - 1) : datadf[k] < datadf[k + 1]

\* the adjusted boundaries of the interval at i
AdjustedStart == zipStEnd[i][1] + responseTime + startOffset
AdjustedEnd == zipStEnd[i][2] + responseTime - endOffset

\* loc is a position of index nearest key
Nearest(index, loc, key) ==
    /\ loc \in 1..Len(index)
    /\ \A m \in 1..Len(index) : Abs(index[loc] - key) <= Abs(index[m] - key)
\* the positions of index as near key as loc
Ties(index, loc, key) ==
    {m \in 1..Len(index) : Abs(index[m] - key) = Abs(index[loc] - key)}

\* C9 as claimed: each boundary resolves to the position of the sample
\* nearest it, the earlier position when two samples are equally near.
C9_NearestTieEarlier ==
    pc = "grabbed" =>
        /\ Nearest(datadf, startIndex, AdjustedStart)
        /\ \A m \in Ties(datadf, startIndex, AdjustedStart) : startIndex <= m
        /\ Nearest(datadf, endIndex, AdjustedEnd)
        /\ \A m \in Ties(datadf, endIndex, AdjustedEnd) : endIndex <= m

\* C9 as amended: on a series that is not empty and holds no timestamp
\* twice, each boundary resolves, independently, to the position of the
\* sample nearest it, the later position when two samples are equally near;
\* on an empty series or one holding a timestamp twice the resolution
\* raises and grab_data returns nothing.
C9_NearestTieLater ==
    [][pc = "merged" =>
          IF datadf # <<>> /\ is_unique(datadf)
          THEN /\ pc' = "grabbed"
               /\ Nearest(datadf, startIndex', AdjustedStart)
               /\ \A m \in Ties(datadf, startIndex', AdjustedStart) :
                     startIndex' >= m
               /\ Nearest(datadf, endIndex', AdjustedEnd)
               /\ \A m \in Ties(datadf, endIndex', AdjustedEnd) :
                     endIndex' >= m
          ELSE /\ pc' = "aborted"
               /\ err'.where = "grab_data"
               /\ err'.type \in {"KeyError", "InvalidIndexError"}]_vars

\* C9 witness: both boundaries have been resolved, the start between two
\* samples equally near it
C9_Witness ==
    /\ pc = "grabbed"
    /\ Cardinality(Ties(datadf, startIndex, AdjustedStart)) = 2
    /\ Cardinality(Ties(datadf, endIndex, AdjustedEnd)) = 1
    /\ startIndex # endIndex

RowsOf(start) ==
    {k \in 1..Len(RunRows) : RunRows[k].epoch = start + responseTime}

\* C11: no row is written for an interval whose logged start is not before
\* its logged end: every interval of the run that has a row in the output
\* file begins before it ends, and an interval that does not has no row.
C11_NoRowForReversedInterval ==
    Paired =>
        \A p \in 1..Len(zipStEnd) :
            zipStEnd[p][1] >= zipStEnd[p][2] => RowsOf(zipStEnd[p][1]) = {}

\* C11 witness: a run has written the row of a first interval and has then
\* met an interval that begins after it ends, whose window came back
\* empty, and has ended without a row for it
C11_Witness ==
    /\ pc = "aborted"
    /\ err.where = "pull_fluxes"
    /\ i = 2
    /\ zipStEnd[1][1] < zipStEnd[1][2]
    /\ zipStEnd[2][1] > zipStEnd[2][2]
    /\ Len(RunRows) = 1
    /\ RowsOf(zipStEnd[2][1]) = {}

\* the paths of the files of the data tree that lie in the day directory
\* of either boundary of the range and whose rows overlap the range
Overlapping ==
    {PathOf(f) : f \in
        {g \in shardDir :
            /\ g.day \in {span[1] \div SecondsPerDay, span[2] \div SecondsPerDay}
            /\ span[1] <= g.rows[Len(g.rows)].t
            /\ span[2] >= g.rows[1].t}}

\* C12: file_list returns exactly the files of the day directories of the
\* two boundaries whose span overlaps the range (start <= last stamp and
\* end >= first stamp), each once, in ascending path order.
C12_FileListOverlapSorted ==
    upc = "listed" =>
        /\ {targets[k] : k \in 1..Len(targets)} = Overlapping
        /\ Len(targets) = Cardinality(Overlapping)
        /\ \A k \in 1..(Len(targets) - 1) :
              PathLess(targets[k], targets[k + 1])

\* C12 witness: both boundaries fall on the day of two files, so both
\* globs return both; one overlaps the range and is listed once, the other
\* does not and is left out
C12_Witness ==
    /\ upc = "listed"
    /\ span[1] \div SecondsPerDay = span[2] \div SecondsPerDay
    /\ Cardinality(shardDir) = 2
    /\ \A f \in shardDir : f.day = span[1] \div SecondsPerDay
    /\ Len(targets) = 1

\* C13: the Epoch of each row the run has written is the adjusted start of
\* its interval, start + responseTime + startOffset, the key grab_data
\* resolves the start of the window with.
C13_EpochIsAdjustedStart ==
    Paired =>
        \A k \in 1..Len(RunRows) :
            RunRows[k].epoch = zipStEnd[k][1] + responseTime + startOffset

\* C14: dropna removes a row exactly when one of the columns of getLabels
\* holds NaN in it: the rows kept are, in order, those complete in the
\* tracked columns, whatever their other columns hold.
C14_DroppedIffTrackedMissing ==
    upc = "dropped" =>
        cleanFrame = SelectSeq(rawFrame, LAMBDA r : r.na \cap getLabels = {})

\* C15: file_timestamps ends on every file content: it returns, or it
\* raises.
C15_ProbeTerminates == <>(upc = "returned" \/ Raised)

\* C15 witness: on a file whose last data row has no line feed after it,
\* the scan has gone back over that row, byte by byte, to the line feed
\* before it, and the stamps of the first and of the last data row have
\* been returned
C15_Witness ==
    /\ upc = "returned"
    /\ content[Len(content)] # "\n"
    /\ firstStamp = 1
    /\ lastStamp = 2

====
